---- MODULE Spec2Model ----
(***************************************************************************)
(* Model of src/app.py: the Socket.IO chat room.  The shared state is the  *)
(* registry online_users (a dict, kept here as its insertion-ordered item  *)
(* list), the bounded chat_history list and the members of room            *)
(* 'chat_room'.  Every handler invocation runs in its own thread and only  *)
(* the appends to chat_history are under socketio.lock, so a handler is a  *)
(* sequence of steps that interleave with the steps of the handlers of     *)
(* other connections.  A step is one read or write of online_users, or a   *)
(* run of consecutive statements that only enter or leave the room, append *)
(* under the lock, or emit.  A connection runs one handler at a time.      *)
(*                                                                         *)
(* A Python str is a sequence of characters; a character is a one-element  *)
(* token such as "a", " ", "!" or "U7535" (the code point of a CJK         *)
(* ideograph).  Tokens that start with "#" stand for a fixed text or for a *)
(* value that is no str.                                                   *)
(***************************************************************************)
EXTENDS Integers, Sequences, FiniteSets, TLC

(* ------------------------------ bounds -------------------------------- *)

\* join, send_message, leave and disconnect events per run
MaxEvents == 3

(* ------------------------- program constants -------------------------- *)

\* username.strip()[:30]
NameCap == 30

\* if len(chat_history) > 100
HistoryCap == 100

\* if len(message) > 500
MessageCap == 500

(* ------------------------------ strings ------------------------------- *)

Conns == {"c1", "c2"}

NoConn == "none"

Min(a, b) == IF a < b THEN a ELSE b

Rep(ch, n) == [i \in 1..n |-> ch]

\* str.strip(): the alphabet of the model has one whitespace character
IsSpace(ch) == ch = " "

RECURSIVE LStrip(_)
LStrip(s) == IF s # <<>> /\ IsSpace(Head(s)) THEN LStrip(Tail(s)) ELSE s

RECURSIVE RStrip(_)
RStrip(s) ==
  IF s # <<>> /\ IsSpace(s[Len(s)]) THEN RStrip(SubSeq(s, 1, Len(s) - 1)) ELSE s

Strip(s) == RStrip(LStrip(s))

\* s[:n]
Prefix(s, n) == SubSeq(s, 1, Min(n, Len(s)))

\* s.startswith(p)
StartsWith(s, p) == Len(s) >= Len(p) /\ SubSeq(s, 1, Len(p)) = p

\* p in s
Contains(s, p) ==
  \E i \in 1..(Len(s) + 1) : i + Len(p) - 1 <= Len(s) /\ SubSeq(s, i, i + Len(p) - 1) = p

\* s.split(' ', 1)
FirstSpace(s) ==
  IF \E i \in 1..Len(s) : s[i] = " "
  THEN CHOOSE i \in 1..Len(s) : s[i] = " " /\ \A j \in 1..(i - 1) : s[j] # " "
  ELSE 0

SplitOnce(s) ==
  IF FirstSpace(s) = 0 THEN <<s>>
  ELSE <<SubSeq(s, 1, FirstSpace(s) - 1), SubSeq(s, FirstSpace(s) + 1, Len(s))>>

\* c.isalnum(): letters, digits and CJK ideographs of the model's alphabet
AlnumChars ==
  {"a", "b", "h", "i", "q", "v", "x", "t", "p",
   "U7535", "U5F71", "U5DDD", "U5C0F", "U519C", "U4E00", "U9FA5"}

IsAlnum(ch) == ch \in AlnumChars

\* c in ' _一-龥': the five characters of that literal
ExtraNameChars == {" ", "_", "U4E00", "-", "U9FA5"}

NameCharOk(ch) == IsAlnum(ch) \/ ch \in ExtraNameChars

\* ''.join(c for c in username if ...)
RECURSIVE FilterName(_)
FilterName(s) ==
  IF s = <<>> THEN <<>>
  ELSE IF NameCharOk(Head(s)) THEN <<Head(s)>> \o FilterName(Tail(s))
  ELSE FilterName(Tail(s))

CleanName(raw) == FilterName(Prefix(Strip(raw), NameCap))

\* not username or not isinstance(username, str) or len(username.strip()) == 0
NotAStr == <<"#notstr">>

NameRejected(raw) == raw = <<>> \/ raw = NotAStr \/ Len(Strip(raw)) = 0

(* ------------------------- dict online_users -------------------------- *)

\* A dict keeps its items in insertion order; item i is [name, sid].

\* list(online_users.keys())
Keys(d) == [i \in 1..Len(d) |-> d[i].name]

\* username in online_users
HasKey(d, k) == \E i \in 1..Len(d) : d[i].name = k

IndexOf(d, k) == CHOOSE i \in 1..Len(d) : d[i].name = k /\ \A j \in 1..(i - 1) : d[j].name # k

\* online_users[username]['sid']
SidOf(d, k) == d[IndexOf(d, k)].sid

\* the assignment if it added an item without looking for the key
DictSetNoLookup(d, k, v) == Append(d, [name |-> k, sid |-> v])

\* online_users[username] = {...}: an existing key keeps its position
DictSet(d, k, v) ==
  IF HasKey(d, k) THEN [d EXCEPT ![IndexOf(d, k)] = [name |-> k, sid |-> v]]
  ELSE Append(d, [name |-> k, sid |-> v])

\* del online_users[username]
DictDel(d, k) == SubSeq(d, 1, IndexOf(d, k) - 1) \o SubSeq(d, IndexOf(d, k) + 1, Len(d))

\* for username, user_info in online_users.items(): if user_info['sid'] == sid: ... break
NoName == <<"#None">>

FirstNameOf(d, sid) ==
  IF \E i \in 1..Len(d) : d[i].sid = sid
  THEN d[CHOOSE i \in 1..Len(d) : d[i].sid = sid /\ \A j \in 1..(i - 1) : d[j].sid # sid].name
  ELSE NoName

(* ------------------------------ events -------------------------------- *)

NoData == [kind |-> "none", value |-> <<>>]

\* A chat event (the dicts welcome_msg, ai_response, msg_obj).  The timestamp
\* is left out; id is a history tag, the number of the append that stored it.
Event(type, username, message, special_data) ==
  [type |-> type, username |-> username, message |-> message,
   special_data |-> special_data, id |-> 0]

NoEvent == Event("none", NoName, <<>>, NoData)

\* f'欢迎 {username} 加入聊天室！'
WelcomeText(username) == <<"U6B22", "U8FCE", " ">> \o username \o <<" ", "U52A0", "U5165">>

WelcomeMsg(username) == Event("system", NoName, WelcomeText(username), NoData)

(* ------------------------------- state -------------------------------- *)

\* The locals of a handler are username, old_sid, msg (welcome_msg or msg_obj)
\* and ai (ai_response); body is the payload's 'message'.  prior and bound
\* record what the handler found when it started: the connection its name was
\* bound to, and whether its own connection held a session.
VARIABLES
  status,        \* connection -> "new" | "open" | "closed" (the transport)
  online_users,  \* the registry, as the item list of the dict
  chat_room,     \* the connections in room 'chat_room'
  chat_history,  \* the log
  pc,            \* connection -> position of its running handler, or "idle"
  op,            \* connection -> the handler it runs or ran last
  loc,           \* connection -> the locals of its handler
  effects,       \* connection -> what its current/last handler did, in order
  appended,      \* history: every event ever appended to chat_history
  nEvents        \* join, send_message, leave and disconnect events so far

vars == <<status, online_users, chat_room, chat_history, pc, op, loc,
          effects, appended, nEvents>>

NoLocals ==
  [username |-> NoName, prior |-> NoConn, old_sid |-> NoConn,
   body |-> <<>>, msg |-> NoEvent, ai |-> NoEvent, bound |-> FALSE, ai_failed |-> FALSE]

\* One entry of effects: an emit (ev is the Socket.IO event, to the connections
\* it is delivered to) or a mutation of the shared state ("bind" and "unbind"
\* carry in users the keys of the registry right after the mutation).
Effect(ev, to, name, users, msg, msgs) ==
  [ev |-> ev, to |-> to, name |-> name, users |-> users, msg |-> msg, msgs |-> msgs]

Open == {c \in Conns : status[c] = "open"}

\* emit(..., room=sid) and emit(...) with the default room request.sid
ToSid(sid) == IF sid \in Open THEN {sid} ELSE {}

\* emit(..., broadcast=True)
ToAll == Open

\* emit(..., broadcast=True, include_self=False)
ToOthers(c) == Open \ {c}

\* emit(..., broadcast=True, room='chat_room')
ToRoom == chat_room \cap Open

Init ==
  /\ status = [c \in Conns |-> "new"]
  /\ online_users = <<>>
  /\ chat_room = {}
  /\ chat_history = <<>>
  /\ pc = [c \in Conns |-> "idle"]
  /\ op = [c \in Conns |-> "none"]
  /\ loc = [c \in Conns |-> NoLocals]
  /\ effects = [c \in Conns |-> <<>>]
  /\ appended = <<>>
  /\ nEvents = 0

\* some session is bound to connection c
Bound(c) == \E i \in 1..Len(online_users) : online_users[i].sid = c

At(c, l) == pc[c] = l

\* A handler starts on an open connection that runs no handler.
Starts(c, h) ==
  /\ status[c] = "open"
  /\ At(c, "idle")
  /\ nEvents < MaxEvents
  /\ nEvents' = nEvents + 1
  /\ op' = [op EXCEPT ![c] = h]

Did(c, e) == effects' = [effects EXCEPT ![c] = Append(effects[c], e)]

Goto(c, l) == pc' = [pc EXCEPT ![c] = l]

(* ------------------------------ connect ------------------------------- *)

handle_connect(c) ==
  /\ status[c] = "new"
  /\ At(c, "idle")
  /\ status' = [status EXCEPT ![c] = "open"]
  /\ op' = [op EXCEPT ![c] = "connect"]
  /\ effects' = [effects EXCEPT ![c] =
                   <<Effect("connect_ack", {c}, NoName, <<>>, NoEvent, <<>>)>>]
  /\ UNCHANGED <<online_users, chat_room, chat_history, pc, loc, appended, nEvents>>

(* -------------------------- chat_history.append ----------------------- *)

\* the append if it dropped the newest entry, pop() for pop(0)
AppendedPopsTail(h, e) == IF Len(h) + 1 > HistoryCap THEN h ELSE Append(h, e)

\* chat_history.append(e); if len(chat_history) > 100: chat_history.pop(0)
Appended(h, e) == IF Len(h) + 1 > HistoryCap THEN Tail(Append(h, e)) ELSE Append(h, e)

\* with socketio.lock: ...  Every write of chat_history is inside such a block,
\* so the block is one step.
LockedAppend(c, e) ==
  /\ chat_history' = Appended(chat_history, [e EXCEPT !.id = Len(appended) + 1])
  /\ appended' = Append(appended, [e EXCEPT !.id = Len(appended) + 1])
  /\ Did(c, Effect("append", {}, NoName, <<>>, [e EXCEPT !.id = Len(appended) + 1], <<>>))

(* -------------------------------- join -------------------------------- *)

Malformed == <<"#malformed">>

RawNames ==
  { <<"a">>, <<" ", "a", " ">>, <<"b">>, <<"!">>, <<" ">>, <<>>, NotAStr,
    Rep("!", NameCap) \o <<"a">> }

\* lines 131-152: validation, clean-up, "if username in online_users"
join_start(c, raw) ==
  /\ Starts(c, "join")
  /\ \/ /\ raw = Malformed \/ NameRejected(raw)
        /\ loc' = [loc EXCEPT ![c] = NoLocals]
        /\ effects' = [effects EXCEPT ![c] =
                         <<Effect("error", ToSid(c), NoName, <<>>, NoEvent, <<>>)>>]
        /\ Goto(c, "idle")
     \/ /\ raw # Malformed /\ ~NameRejected(raw)
        /\ loc' = [loc EXCEPT ![c] =
                     [NoLocals EXCEPT !.username = CleanName(raw),
                                      !.bound = Bound(c),
                                      !.prior = IF HasKey(online_users, CleanName(raw))
                                                THEN SidOf(online_users, CleanName(raw))
                                                ELSE NoConn]]
        /\ effects' = [effects EXCEPT ![c] = <<>>]
        /\ Goto(c, IF HasKey(online_users, CleanName(raw)) THEN "join_154" ELSE "join_163")
  /\ UNCHANGED <<status, online_users, chat_room, chat_history, appended>>

\* lines 203-208: the handler's except clause
join_failed(c) ==
  /\ Did(c, Effect("error", ToSid(c), NoName, <<>>, NoEvent, <<>>))
  /\ Goto(c, "idle")
  /\ UNCHANGED loc

\* the comparison if it took every registered name for another connection's
join_154_always_kicks(c) ==
  /\ At(c, "join_154")
  /\ IF ~HasKey(online_users, loc[c].username) THEN join_failed(c)
     ELSE Goto(c, "join_157") /\ UNCHANGED <<loc, effects>>
  /\ UNCHANGED <<status, online_users, chat_room, chat_history, op, appended, nEvents>>

\* line 154: if online_users[username]['sid'] != sid
join_154(c) ==
  /\ At(c, "join_154")
  /\ IF ~HasKey(online_users, loc[c].username) THEN join_failed(c)
     ELSE /\ Goto(c, IF SidOf(online_users, loc[c].username) # c THEN "join_157" ELSE "join_163")
          /\ UNCHANGED <<loc, effects>>
  /\ UNCHANGED <<status, online_users, chat_room, chat_history, op, appended, nEvents>>

\* lines 157-158: old_sid = online_users[username]['sid']; emit('kicked', room=old_sid)
join_157(c) ==
  /\ At(c, "join_157")
  /\ IF ~HasKey(online_users, loc[c].username) THEN join_failed(c)
     ELSE /\ loc' = [loc EXCEPT ![c].old_sid = SidOf(online_users, loc[c].username)]
          /\ Did(c, Effect("kicked", ToSid(SidOf(online_users, loc[c].username)),
                           NoName, <<>>, NoEvent, <<>>))
          /\ Goto(c, "join_163")
  /\ UNCHANGED <<status, online_users, chat_room, chat_history, op, appended, nEvents>>

\* lines 163-166: online_users[username] = {'sid': sid, ...}
join_163(c) ==
  /\ At(c, "join_163")
  /\ online_users' = DictSet(online_users, loc[c].username, c)
  /\ Did(c, Effect("bind", {}, loc[c].username, Keys(online_users'), NoEvent, <<>>))
  /\ UNCHANGED loc
  /\ Goto(c, "join_171")
  /\ UNCHANGED <<status, chat_room, chat_history, op, appended, nEvents>>

\* line 171: join_room('chat_room'); lines 174-185: welcome_msg is built and
\* appended under the lock
join_171(c) ==
  /\ At(c, "join_171")
  /\ chat_room' = chat_room \cup {c}
  /\ LockedAppend(c, WelcomeMsg(loc[c].username))
  /\ loc' = [loc EXCEPT ![c].msg = [WelcomeMsg(loc[c].username) EXCEPT !.id = Len(appended) + 1]]
  /\ Goto(c, "join_189")
  /\ UNCHANGED <<status, online_users, op, nEvents>>

\* line 189: emit('history', {'messages': chat_history});
\* lines 195-199: emit('user_joined', {...}, broadcast=True)
join_189(c) ==
  /\ At(c, "join_189")
  /\ effects' = [effects EXCEPT ![c] = effects[c] \o
       << Effect("history", ToSid(c), NoName, <<>>, NoEvent, chat_history),
          Effect("user_joined", ToAll, loc[c].username, Keys(online_users), loc[c].msg, <<>>) >>]
  /\ Goto(c, "idle")
  /\ UNCHANGED <<status, online_users, chat_room, chat_history, op, loc, appended, nEvents>>

handle_join(c) ==
  \/ \E raw \in RawNames \cup {Malformed} : join_start(c, raw)
  \/ join_154(c) \/ join_157(c) \/ join_163(c) \/ join_171(c) \/ join_189(c)

(* ----------------------------- disconnect ----------------------------- *)

\* the transport drops a closed connection from every room
disconnect_done(c) ==
  /\ chat_room' = chat_room \ {c}
  /\ Goto(c, "idle")

\* lines 105-115: the connection is gone; the scan for its name; "if username_to_remove"
disconnect_start(c) ==
  /\ Starts(c, "disconnect")
  /\ status' = [status EXCEPT ![c] = "closed"]
  /\ loc' = [loc EXCEPT ![c] =
               [NoLocals EXCEPT !.username = FirstNameOf(online_users, c), !.bound = Bound(c)]]
  /\ effects' = [effects EXCEPT ![c] = <<>>]
  /\ IF FirstNameOf(online_users, c) \notin {NoName, <<>>}
     THEN Goto(c, "disconnect_116") /\ UNCHANGED chat_room
     ELSE disconnect_done(c)
  /\ UNCHANGED <<online_users, chat_history, appended>>

\* line 116: del online_users[username_to_remove]; a KeyError ends the handler
disconnect_116(c) ==
  /\ At(c, "disconnect_116")
  /\ IF HasKey(online_users, loc[c].username)
     THEN /\ online_users' = DictDel(online_users, loc[c].username)
          /\ Did(c, Effect("unbind", {}, loc[c].username, Keys(online_users'), NoEvent, <<>>))
          /\ Goto(c, "disconnect_120")
          /\ UNCHANGED chat_room
     ELSE /\ disconnect_done(c)
          /\ UNCHANGED <<online_users, effects>>
  /\ UNCHANGED <<status, chat_history, op, loc, appended, nEvents>>

\* lines 120-123: emit('user_left', {...}, broadcast=True, include_self=False)
disconnect_120(c) ==
  /\ At(c, "disconnect_120")
  /\ Did(c, Effect("user_left", ToOthers(c), loc[c].username, Keys(online_users), NoEvent, <<>>))
  /\ disconnect_done(c)
  /\ UNCHANGED <<status, online_users, chat_history, op, loc, appended, nEvents>>

handle_disconnect(c) == disconnect_start(c) \/ disconnect_116(c) \/ disconnect_120(c)

(* -------------------------------- leave ------------------------------- *)

\* the 'username' of a leave or send_message payload is used as it comes
PayloadNames == { <<"a">>, <<"b">> }

\* the handler if it told the room of a departure whether or not it found the name
leave_start_always_tells(c, name) ==
  /\ Starts(c, "leave")
  /\ effects' = [effects EXCEPT ![c] =
                   <<Effect("user_left", ToOthers(c), name, Keys(online_users), NoEvent, <<>>)>>]
  /\ loc' = [loc EXCEPT ![c] = [NoLocals EXCEPT !.username = name, !.bound = Bound(c)]]
  /\ Goto(c, IF name # Malformed /\ HasKey(online_users, name) THEN "leave_375" ELSE "idle")
  /\ UNCHANGED <<status, online_users, chat_room, chat_history, appended>>

\* lines 367-374: "if username in online_users"
leave_start(c, name) ==
  /\ Starts(c, "leave")
  /\ effects' = [effects EXCEPT ![c] = <<>>]
  /\ IF name = Malformed
     THEN loc' = [loc EXCEPT ![c] = NoLocals] /\ Goto(c, "idle")
     ELSE /\ loc' = [loc EXCEPT ![c] =
                       [NoLocals EXCEPT !.username = name,
                                        !.bound = Bound(c),
                                        !.prior = IF HasKey(online_users, name)
                                                  THEN SidOf(online_users, name) ELSE NoConn]]
          /\ Goto(c, IF HasKey(online_users, name) THEN "leave_375" ELSE "idle")
  /\ UNCHANGED <<status, online_users, chat_room, chat_history, appended>>

\* line 375: del online_users[username]; a KeyError ends the handler
leave_375(c) ==
  /\ At(c, "leave_375")
  /\ IF HasKey(online_users, loc[c].username)
     THEN /\ online_users' = DictDel(online_users, loc[c].username)
          /\ Did(c, Effect("unbind", {}, loc[c].username, Keys(online_users'), NoEvent, <<>>))
          /\ Goto(c, "leave_376")
     ELSE /\ Goto(c, "idle")
          /\ UNCHANGED <<online_users, effects>>
  /\ UNCHANGED <<status, chat_room, chat_history, op, loc, appended, nEvents>>

\* lines 376-383: leave_room('chat_room'); emit('user_left', ..., include_self=False)
leave_376(c) ==
  /\ At(c, "leave_376")
  /\ chat_room' = chat_room \ {c}
  /\ Did(c, Effect("user_left", ToOthers(c), loc[c].username, Keys(online_users), NoEvent, <<>>))
  /\ Goto(c, "idle")
  /\ UNCHANGED <<status, online_users, chat_history, op, loc, appended, nEvents>>

handle_leave(c) ==
  \/ \E name \in PayloadNames \cup {Malformed} : leave_start(c, name)
  \/ leave_375(c) \/ leave_376(c)

(* ---------------------------- send_message ---------------------------- *)

\* '@电影'
MovieCmd == <<"@", "U7535", "U5F71">>

\* '@川小农'
AiCmd == <<"@", "U5DDD", "U5C0F", "U519C">>

\* the author of an ai_reply, '川小农'
AiName == <<"U5DDD", "U5C0F", "U519C">>

Http == <<"h", "t", "t", "p", ":", "/", "/">>

Https == <<"h", "t", "t", "p", "s", ":", "/", "/">>

\* the two instruction texts and the canned answers, as one token each
MovieUsage == <<"#movie_usage">>

AiUsage == <<"#ai_usage">>

\* any(keyword in question for keyword in [...])
AnyIn(q, keywords) == \E k \in keywords : Contains(q, k)

\* lines 277-300: the keyword lists
KW1 == {<<"U4F60", "U662F", "U8C01">>, <<"U4F60", "U662F">>, <<"U4ECB", "U7ECD">>, <<"U540D", "U5B57">>, <<"U5C0F", "U7F8E">>}

KW2 == {<<"U5DDD", "U519C", "U5927">>, <<"U56DB", "U5DDD", "U519C", "U4E1A", "U5927", "U5B66">>, <<"U5B66", "U6821">>, <<"U5728", "U54EA", "U91CC">>, <<"U5730", "U5740">>}

KW2a == {<<"U5730", "U5740">>, <<"U5728", "U54EA", "U91CC">>}

KW3 == {<<"U4E13", "U4E1A">>, <<"U5B66", "U79D1">>, <<"U5B66", "U9662">>}

KW4 == {<<"U5386", "U53F2">>, <<"U6210", "U7ACB">>, <<"U521B", "U5EFA">>, <<"U591A", "U5C11", "U5E74">>}

KW5 == {<<"U751F", "U6D3B">>, <<"U5BBF", "U820D">>, <<"U98DF", "U5802">>, <<"U6821", "U56ED">>}

KW6 == {<<"U62DB", "U751F">>, <<"U5206", "U6570", "U7EBF">>, <<"U62A5", "U8003">>, <<"U5F55", "U53D6">>}

\* lines 271-305: the canned answer to parts[1]
Responder(arg) ==
  IF AnyIn(Strip(arg), KW1) THEN <<"#intro">>
  ELSE IF AnyIn(Strip(arg), KW2)
       THEN (IF AnyIn(Strip(arg), KW2a) THEN <<"#campus_address">> ELSE <<"#university">>)
  ELSE IF AnyIn(Strip(arg), KW3) THEN <<"#majors">>
  ELSE IF AnyIn(Strip(arg), KW4) THEN <<"#history">>
  ELSE IF AnyIn(Strip(arg), KW5) THEN <<"#campus_life">>
  ELSE IF AnyIn(Strip(arg), KW6) THEN <<"#admission">>
  ELSE <<"#thanks">> \o arg \o <<"#learning">>

\* if len(message) > 500: message = message[:500] + '...'
Truncate(m) == IF Len(m) > MessageCap THEN Prefix(m, MessageCap) \o <<".", ".", ".">> ELSE m

\* the normalisation if it put the scheme in front of every argument
MovieUrlAlwaysPrepends(arg) == Http \o Strip(arg)

\* lines 256-257
MovieUrl(arg) ==
  IF StartsWith(Strip(arg), Http) \/ StartsWith(Strip(arg), Https)
  THEN Strip(arg) ELSE Http \o Strip(arg)

\* the classification if the assistant command were not told from plain text
ClassifyNoAssistant(m) ==
  [type |-> "text", message |-> m, is_ai |-> FALSE, special_data |-> NoData]

\* lines 245-267, 333-334: message_type, message, special_data of the stripped
\* and truncated message m, and whether the assistant answers it
Classify(m) ==
  IF StartsWith(m, MovieCmd)
  THEN IF Len(SplitOnce(m)) > 1
       THEN [type |-> "movie", message |-> m, is_ai |-> FALSE,
             special_data |-> [kind |-> "url", value |-> MovieUrl(SplitOnce(m)[2])]]
       ELSE [type |-> "text", message |-> MovieUsage, is_ai |-> FALSE, special_data |-> NoData]
  ELSE IF StartsWith(m, AiCmd)
  THEN IF Len(SplitOnce(m)) > 1
       THEN [type |-> "ai_chat", message |-> m, is_ai |-> TRUE,
             special_data |-> [kind |-> "question", value |-> SplitOnce(m)[2]]]
       ELSE [type |-> "text", message |-> AiUsage, is_ai |-> FALSE, special_data |-> NoData]
  ELSE [type |-> "text", message |-> m, is_ai |-> FALSE, special_data |-> NoData]

\* lines 326-330
AiErrorMsg == Event("system", NoName, <<"#ai_unavailable">>, NoData)

\* lines 337-343
MsgObj(username, m) ==
  Event(Classify(m).type, username, Classify(m).message, Classify(m).special_data)

\* lines 307-312
AiResponse(m) == Event("ai_reply", AiName, Responder(SplitOnce(m)[2]), NoData)

\* the validation if it did not test the message again after strip()
BodyDroppedUntrimmed(body) == body = <<>> \/ body = NotAStr

\* not message or not isinstance(message, str); message.strip() is empty
BodyDropped(body) == body = <<>> \/ body = NotAStr \/ Strip(body) = <<>>

Bodies ==
  { <<"h", "i">>, <<" ">>, <<>>, AiCmd \o <<" ", "q">> }

\* lines 212-267: validation, "if username not in online_users", classification
message_start(c, name, body) ==
  /\ Starts(c, "send_message")
  /\ IF name = Malformed
     THEN /\ loc' = [loc EXCEPT ![c] = NoLocals]
          /\ effects' = [effects EXCEPT ![c] = <<>>]
          /\ Goto(c, "idle")
     ELSE IF ~HasKey(online_users, name)
     THEN /\ loc' = [loc EXCEPT ![c] =
                       [NoLocals EXCEPT !.username = name, !.bound = Bound(c), !.body = body]]
          /\ effects' = [effects EXCEPT ![c] =
                           <<Effect("error", ToSid(c), NoName, <<>>, NoEvent, <<>>)>>]
          /\ Goto(c, "idle")
     ELSE IF BodyDropped(body)
     THEN /\ loc' = [loc EXCEPT ![c] =
                       [NoLocals EXCEPT !.username = name, !.bound = Bound(c), !.body = body,
                                        !.prior = SidOf(online_users, name)]]
          /\ effects' = [effects EXCEPT ![c] = <<>>]
          /\ Goto(c, "idle")
     ELSE /\ loc' = [loc EXCEPT ![c] =
                       [NoLocals EXCEPT
                          !.username = name, !.bound = Bound(c),
                          !.prior = SidOf(online_users, name),
                          !.body = body,
                          !.msg = MsgObj(name, Truncate(Strip(body))),
                          !.ai = IF Classify(Truncate(Strip(body))).is_ai
                                 THEN AiResponse(Truncate(Strip(body))) ELSE NoEvent]]
          /\ effects' = [effects EXCEPT ![c] = <<>>]
          /\ Goto(c, IF Classify(Truncate(Strip(body))).is_ai THEN "message_315" ELSE "message_346")
  /\ UNCHANGED <<status, online_users, chat_room, chat_history, appended>>

\* lines 315-319: the reply is appended under the lock
message_315(c) ==
  /\ At(c, "message_315")
  /\ LockedAppend(c, loc[c].ai)
  /\ loc' = [loc EXCEPT ![c].ai.id = Len(appended) + 1]
  /\ Goto(c, "message_322")
  /\ UNCHANGED <<status, online_users, chat_room, op, nEvents>>

\* line 322: emit('new_message', ai_response, broadcast=True, room='chat_room');
\* lines 323-331: if the emit raises, error_msg goes to request.sid
message_322(c) ==
  /\ At(c, "message_322")
  /\ \/ /\ Did(c, Effect("new_message", ToRoom, NoName, <<>>, loc[c].ai, <<>>))
        /\ UNCHANGED loc
     \/ /\ Did(c, Effect("new_message", ToSid(c), NoName, <<>>, AiErrorMsg, <<>>))
        /\ loc' = [loc EXCEPT ![c].ai_failed = TRUE]
  /\ Goto(c, "message_346")
  /\ UNCHANGED <<status, online_users, chat_room, chat_history, op, appended, nEvents>>

\* lines 346-350: msg_obj is appended under the lock
message_346(c) ==
  /\ At(c, "message_346")
  /\ LockedAppend(c, loc[c].msg)
  /\ loc' = [loc EXCEPT ![c].msg.id = Len(appended) + 1]
  /\ Goto(c, "message_354")
  /\ UNCHANGED <<status, online_users, chat_room, op, nEvents>>

\* line 354: emit('new_message', msg_obj, broadcast=True, room='chat_room')
message_354(c) ==
  /\ At(c, "message_354")
  /\ Did(c, Effect("new_message", ToRoom, NoName, <<>>, loc[c].msg, <<>>))
  /\ Goto(c, "idle")
  /\ UNCHANGED <<status, online_users, chat_room, chat_history, op, loc, appended, nEvents>>

handle_message(c) ==
  \/ \E name \in PayloadNames \cup {Malformed}, body \in Bodies : message_start(c, name, body)
  \/ message_315(c) \/ message_322(c) \/ message_346(c) \/ message_354(c)

(* ---------------------------- specification --------------------------- *)

Next ==
  \E c \in Conns :
    \/ handle_connect(c)
    \/ handle_join(c)
    \/ handle_message(c)
    \/ handle_leave(c)
    \/ handle_disconnect(c)

Spec == Init /\ [][Next]_vars

(* A long-running server: an earlier connection, closed since, joined as 'a', *)
(* sent messages and left, so the log is one entry short of its cap.         *)

Backlog == HistoryCap - 1

PastLog ==
  [i \in 1..Backlog |->
     [(IF i = 1 THEN WelcomeMsg(<<"a">>) ELSE Event("text", <<"a">>, <<"h", "i">>, NoData))
        EXCEPT !.id = i]]

InitLongRun ==
  /\ status = [c \in Conns |-> "new"]
  /\ online_users = <<>>
  /\ chat_room = {}
  /\ chat_history = PastLog
  /\ pc = [c \in Conns |-> "idle"]
  /\ op = [c \in Conns |-> "none"]
  /\ loc = [c \in Conns |-> NoLocals]
  /\ effects = [c \in Conns |-> <<>>]
  /\ appended = PastLog
  /\ nEvents = 1    \* the earlier session counts as one event of the run

\* the handlers that write the log
NextLongRun ==
  \E c \in Conns :
    \/ handle_connect(c)
    \/ handle_join(c)
    \/ handle_message(c)

SpecLongRun == InitLongRun /\ [][NextLongRun]_vars

(* A burst of messages while a join is between its append and its emits: in  *)
(* the long-running server c1 has joined as 'a' up to line 185, so its       *)
(* welcome is the newest entry of a full log, and the run has as many more   *)
(* events as the log has entries.                                            *)

Burst == HistoryCap

WelcomeOfBurst == [WelcomeMsg(<<"a">>) EXCEPT !.id = Backlog + 1]

InitBurst ==
  /\ status = [c \in Conns |-> "open"]
  /\ online_users = <<[name |-> <<"a">>, sid |-> "c1"]>>
  /\ chat_room = {"c1"}
  /\ chat_history = Append(PastLog, WelcomeOfBurst)
  /\ pc = [c \in Conns |-> IF c = "c1" THEN "join_189" ELSE "idle"]
  /\ op = [c \in Conns |-> IF c = "c1" THEN "join" ELSE "connect"]
  /\ loc = [c \in Conns |->
              IF c = "c1"
              THEN [NoLocals EXCEPT !.username = <<"a">>, !.msg = WelcomeOfBurst]
              ELSE NoLocals]
  /\ effects = [c \in Conns |->
                  IF c = "c1"
                  THEN << Effect("bind", {}, <<"a">>, << <<"a">> >>, NoEvent, <<>>),
                          Effect("append", {}, NoName, <<>>, WelcomeOfBurst, <<>>) >>
                  ELSE <<Effect("connect_ack", {c}, NoName, <<>>, NoEvent, <<>>)>>]
  /\ appended = Append(PastLog, WelcomeOfBurst)
  /\ nEvents = MaxEvents - Burst    \* the run has Burst more events

\* the rest of the join, and plain messages under the registered name
NextBurst ==
  \E c \in Conns :
    \/ join_189(c)
    \/ message_start(c, <<"a">>, <<"h", "i">>)
    \/ message_346(c)
    \/ message_354(c)

SpecBurst == InitBurst /\ [][NextBurst]_vars

(* The classification of movie commands: c1 has joined as 'a' and c2 is      *)
(* connected; the payloads carry the movie command in its variants.          *)

WelcomeOfMovie == [WelcomeMsg(<<"a">>) EXCEPT !.id = 1]

\* '@电影' alone, glued to a word, with a bare argument, with either scheme,
\* with blanks around the argument, with a word that only begins like a
\* scheme, with an argument of two words, and longer than the message cap
MovieBodies ==
  { MovieCmd,
    MovieCmd \o <<"x">>,
    MovieCmd \o <<" ", "x">>,
    MovieCmd \o <<" ">> \o Http \o <<"x">>,
    MovieCmd \o <<" ">> \o Https \o <<"x">>,
    <<" ">> \o MovieCmd \o <<" ", " ">> \o Https \o <<"x", " ">>,
    MovieCmd \o <<" ", "h", "t", "t", "p", "x">>,
    MovieCmd \o <<" ", "x", " ", "v">>,
    MovieCmd \o <<" ">> \o Http \o Rep("x", MessageCap) }

InitMovie ==
  /\ status = [c \in Conns |-> "open"]
  /\ online_users = <<[name |-> <<"a">>, sid |-> "c1"]>>
  /\ chat_room = {"c1"}
  /\ chat_history = <<WelcomeOfMovie>>
  /\ pc = [c \in Conns |-> "idle"]
  /\ op = [c \in Conns |-> IF c = "c1" THEN "join" ELSE "connect"]
  /\ loc = [c \in Conns |->
              IF c = "c1"
              THEN [NoLocals EXCEPT !.username = <<"a">>, !.msg = WelcomeOfMovie]
              ELSE NoLocals]
  /\ effects = [c \in Conns |->
                  IF c = "c1"
                  THEN << Effect("bind", {}, <<"a">>, << <<"a">> >>, NoEvent, <<>>),
                          Effect("append", {}, NoName, <<>>, WelcomeOfMovie, <<>>),
                          Effect("history", {"c1"}, NoName, <<>>, NoEvent, <<WelcomeOfMovie>>),
                          Effect("user_joined", Conns, <<"a">>, << <<"a">> >>, WelcomeOfMovie, <<>>) >>
                  ELSE <<Effect("connect_ack", {c}, NoName, <<>>, NoEvent, <<>>)>>]
  /\ appended = <<WelcomeOfMovie>>
  /\ nEvents = 0    \* the events of the run are the messages

NextMovie ==
  \E c \in Conns :
    \/ \E body \in MovieBodies : message_start(c, <<"a">>, body)
    \/ message_346(c)
    \/ message_354(c)

SpecMovie == InitMovie /\ [][NextMovie]_vars

(* ------------------------------ properties ---------------------------- *)

Finished(c, h) == op[c] = h /\ pc[c] = "idle"

\* the effects of kind ev, in order
RECURSIVE Only(_, _)
Only(es, ev) ==
  IF es = <<>> THEN <<>>
  ELSE IF Head(es).ev = ev THEN <<Head(es)>> \o Only(Tail(es), ev)
  ELSE Only(Tail(es), ev)

\* s[-n:]
LastN(s, n) == SubSeq(s, Len(s) - n + 1, Len(s))

\* C1. Name uniqueness: in every reachable state the registry holds at most one
\* session per display name, the name is a normalized one (at most 30 characters,
\* all of them allowed), and the session is bound to one connection.
C1_NameUniqueness ==
  \A i \in 1..Len(online_users) :
    /\ \A j \in 1..Len(online_users) : online_users[i].name = online_users[j].name => i = j
    /\ Len(online_users[i].name) <= NameCap
    /\ FilterName(online_users[i].name) = online_users[i].name
    /\ online_users[i].sid \in Conns

\* C1 witness: a join has rebound a name that another connection held, while a
\* second name is registered too.
C1_Witness ==
  \E c \in Conns :
    /\ Finished(c, "join")
    /\ loc[c].prior \in Conns \ {c}
    /\ HasKey(online_users, loc[c].username)
    /\ SidOf(online_users, loc[c].username) = c
    /\ Len(online_users) = 2

\* C2. Reconnection supersession, as claimed: a join that arrives for a name
\* held by another connection sends that connection exactly one kicked notice,
\* which it receives, and leaves the name bound to the joining connection.
C2_Supersession ==
  \A c \in Conns :
    (Finished(c, "join") /\ loc[c].prior \in Conns \ {c}) =>
      /\ Len(Only(effects[c], "kicked")) = 1
      /\ Only(effects[c], "kicked")[1].to = {loc[c].prior}
      /\ Len(Only(effects[c], "bind")) = 1

\* C3. Log bound: the log never holds more than 100 events, and it is exactly
\* the most recent min(k, 100) of the k events ever appended, in append order.
C3_LogBound ==
  /\ Len(chat_history) <= HistoryCap
  /\ chat_history = LastN(appended, Min(Len(appended), HistoryCap))

\* C3 witness: a join and a send_message have appended past the cap, so that
\* more than one old entry has been evicted.
C3_Witness ==
  /\ Len(appended) >= HistoryCap + 2
  /\ \E i \in (Backlog + 1)..Len(appended) : appended[i].type = "system"
  /\ \E i \in (Backlog + 1)..Len(appended) : appended[i].type = "ai_chat"

\* C4. Message authorization, as claimed: a send_message from a connection
\* that holds no session appends nothing to the log and broadcasts nothing,
\* whatever name and body it carries.
C4_Authorization ==
  \A c \in Conns :
    (op[c] = "send_message" /\ ~loc[c].bound) =>
      /\ Only(effects[c], "append") = <<>>
      /\ Only(effects[c], "new_message") = <<>>

\* the connections that hold a session
Holders == {online_users[i].sid : i \in 1..Len(online_users)}

\* C5. Disconnect cleanup, as claimed: when the disconnect handler of a
\* connection has finished, no session remains registered for that connection.
C5_DisconnectCleanup ==
  \A c \in Conns : Finished(c, "disconnect") => c \notin Holders

\* C6. Idempotent leave: a leave for a name that has no session ends at once,
\* leaves registry, log and room as they were and emits nothing.
C6_IdempotentLeave ==
  [][\A c \in Conns, n \in PayloadNames :
       (leave_start(c, n) /\ ~HasKey(online_users, n)) =>
         /\ UNCHANGED <<online_users, chat_history, appended, chat_room, status>>
         /\ effects'[c] = <<>>
         /\ pc'[c] = "idle"]_vars

\* C6 witness: a leave for an absent name has been handled after an earlier
\* leave took the name away from its holder.
C6_Witness ==
  \E c \in Conns :
    /\ Finished(c, "leave")
    /\ loc[c].username \in PayloadNames
    /\ loc[c].prior = NoConn
    /\ nEvents >= 3
    /\ Len(appended) >= 1
    /\ online_users = <<>>

\* C7. Invalid name rejection, as claimed: a join whose cleaned name is empty
\* creates no session, appends no welcome event and broadcasts no user_joined.
C7_InvalidNameRejected ==
  \A c \in Conns :
    (op[c] = "join" /\ loc[c].username = <<>>) =>
      /\ Only(effects[c], "bind") = <<>>
      /\ Only(effects[c], "append") = <<>>
      /\ Only(effects[c], "user_joined") = <<>>

\* C8. Concurrent same-name joins, as claimed: when the joins of two
\* connections for one name have both finished, the registry holds one session
\* for the name, bound to one of the two, and the other one was sent a kicked
\* notice by the join that won.
C8_LastJoinWins ==
  \A c, d \in Conns :
    (/\ c # d
     /\ Finished(c, "join") /\ Finished(d, "join")
     /\ loc[c].username # NoName
     /\ loc[c].username = loc[d].username) =>
       /\ HasKey(online_users, loc[c].username)
       /\ SidOf(online_users, loc[c].username) \in {c, d}
       /\ SidOf(online_users, loc[c].username) = c =>
            \E k \in 1..Len(effects[c]) : effects[c][k].ev = "kicked" /\ effects[c][k].to = {d}

\* C9. Broadcast reach, as claimed: the new_message of an accepted
\* send_message goes to every open connection that holds a session.
C9_BroadcastReach ==
  [][\A c \in Conns : message_354(c) => (Holders \cap Open) \subseteq ToRoom]_vars

\* the payload is the assistant command followed by an argument
IsQuestion(body) == StartsWith(Strip(body), AiCmd) /\ Len(SplitOnce(Strip(body))) > 1

\* C10. Assistant question: a finished send_message that was accepted, carried
\* the assistant command with an argument and whose reply was published has
\* appended and broadcast two events: the ai_reply authored by the assistant
\* and the ai_chat question authored by the sender, both stored in the log.
C10_AssistantQuestion ==
  \A c \in Conns :
    (/\ Finished(c, "send_message")
     /\ loc[c].prior # NoConn
     /\ IsQuestion(loc[c].body)
     /\ ~loc[c].ai_failed) =>
       /\ Len(Only(effects[c], "append")) = 2
       /\ Len(Only(effects[c], "new_message")) = 2
       /\ \E r, q \in 1..2 :
            /\ r # q
            /\ Only(effects[c], "append")[r].msg.type = "ai_reply"
            /\ Only(effects[c], "append")[r].msg.username = AiName
            /\ Only(effects[c], "append")[q].msg.type = "ai_chat"
            /\ Only(effects[c], "append")[q].msg.username = loc[c].username
            /\ Only(effects[c], "append")[q].msg.special_data.kind = "question"
            /\ Only(effects[c], "new_message")[r].msg = Only(effects[c], "append")[r].msg
            /\ Only(effects[c], "new_message")[q].msg = Only(effects[c], "append")[q].msg
            /\ \E i, j \in 1..Len(appended) :
                 /\ i # j
                 /\ appended[i] = Only(effects[c], "append")[r].msg
                 /\ appended[j] = Only(effects[c], "append")[q].msg

\* C10 witness: such a question has been handled while its sender was in the room.
C10_Witness ==
  \E c \in Conns :
    /\ Finished(c, "send_message")
    /\ IsQuestion(loc[c].body)
    /\ ~loc[c].ai_failed
    /\ Len(effects[c]) = 4
    /\ c \in effects[c][4].to

\* C11. Responder failure, as claimed: when the assistant's reply could not be
\* produced or published, the handler has appended a system error event to the
\* log and delivered that event to the sending connection and to no other, and
\* it has neither appended nor broadcast an ai_reply.
C11_ResponderFailure ==
  \A c \in Conns :
    (Finished(c, "send_message") /\ loc[c].ai_failed) =>
      /\ \E k \in 1..Len(effects[c]) :
           /\ effects[c][k].ev = "append"
           /\ effects[c][k].msg.type = "system"
      /\ \A k \in 1..Len(effects[c]) :
           (effects[c][k].ev = "new_message" /\ effects[c][k].msg.type = "system") =>
             effects[c][k].to \subseteq {c}
      /\ \A k \in 1..Len(effects[c]) : effects[c][k].msg.type # "ai_reply"

\* C12. Same-connection re-join: the steps that a join takes from its
\* comparison of the registered connection to its store, when the name is bound
\* to the joining connection itself, send no kicked notice and leave the
\* registry as it was: same names, same bound connections.
C12_SameConnectionRejoin ==
  [][\A c \in Conns :
       (/\ join_154(c) \/ join_157(c) \/ join_163(c)
        /\ HasKey(online_users, loc[c].username)
        /\ SidOf(online_users, loc[c].username) = c) =>
          /\ online_users' = online_users
          /\ Only(effects'[c], "kicked") = <<>>]_vars

\* C12 witness: a connection that holds a name has joined under it again, while
\* another name is registered to the other connection.
C12_Witness ==
  \E c \in Conns :
    /\ Finished(c, "join")
    /\ loc[c].prior = c
    /\ Len(Only(effects[c], "bind")) = 1
    /\ Only(effects[c], "kicked") = <<>>
    /\ Len(online_users) = 2
    /\ SidOf(online_users, loc[c].username) = c
    /\ \E i \in 1..2 : online_users[i].sid # c

\* C13. Disconnect matches by connection, as claimed: when the disconnect
\* handler of a connection deletes a session, that session is bound to the
\* disconnecting connection at the moment of the deletion.
C13_DisconnectMatchesConnection ==
  [][\A c \in Conns :
       (disconnect_116(c) /\ online_users' # online_users) =>
         SidOf(online_users, loc[c].username) = c]_vars

\* the names in a list of keys
Range(s) == {s[i] : i \in 1..Len(s)}

\* C14. Membership snapshot consistency, as claimed: the membership carried by
\* a user_joined or user_left broadcast is the key set of the registry right
\* after the registry mutation of the handler that sends the broadcast.
C14_SnapshotConsistency ==
  \A c \in Conns : \A k \in 1..Len(effects[c]) :
    effects[c][k].ev \in {"user_joined", "user_left"} =>
      \E j \in 1..(k - 1) :
        /\ effects[c][j].ev \in {"bind", "unbind"}
        /\ Range(effects[c][k].users) = Range(effects[c][j].users)

C16_EmptyMessageDrop ==
  [][\A c \in Conns, n \in PayloadNames, b \in Bodies :
       (Strip(b) = <<>> /\ HasKey(online_users, n) /\ message_start(c, n, b)) =>
         /\ UNCHANGED <<online_users, chat_history, appended, chat_room, status>>
         /\ effects'[c] = <<>>
         /\ pc'[c] = "idle"]_vars

\* C16 witness: a blank body has been sent under a name that the sending
\* connection holds, as the third event of a run in which its join wrote the log.
C16_Witness ==
  \E c \in Conns :
    /\ Finished(c, "send_message")
    /\ loc[c].prior = c
    /\ loc[c].body = <<" ">>
    /\ effects[c] = <<>>
    /\ Len(chat_history) = 1
    /\ nEvents = 3

\* the movie command's argument: what follows the first blank of the message
MovieArg(m) == Strip(SubSeq(m, FirstSpace(m) + 1, Len(m)))

\* C17. Movie-share classification: an accepted message that starts with the
\* movie command is logged and broadcast as one event; with an argument the
\* event is of type movie and its url is the argument itself if that starts
\* with http:// or https://, and http:// followed by the argument otherwise;
\* without an argument it is a text event with the usage text and no attachment.
C17_MovieShare ==
  \A c \in Conns :
    (/\ Finished(c, "send_message")
     /\ loc[c].prior # NoConn
     /\ StartsWith(Strip(loc[c].body), MovieCmd)) =>
       /\ Len(effects[c]) = 2
       /\ effects[c][1].ev = "append"
       /\ effects[c][2].ev = "new_message"
       /\ effects[c][2].msg = effects[c][1].msg
       /\ \E i \in 1..Len(appended) : appended[i] = effects[c][1].msg
       /\ effects[c][1].msg.username = loc[c].username
       /\ IF \E i \in 1..Len(Truncate(Strip(loc[c].body))) : Truncate(Strip(loc[c].body))[i] = " "
          THEN /\ effects[c][1].msg.type = "movie"
               /\ effects[c][1].msg.message = Truncate(Strip(loc[c].body))
               /\ effects[c][1].msg.special_data.kind = "url"
               /\ effects[c][1].msg.special_data.value =
                    IF \/ StartsWith(MovieArg(Truncate(Strip(loc[c].body))), Http)
                       \/ StartsWith(MovieArg(Truncate(Strip(loc[c].body))), Https)
                    THEN MovieArg(Truncate(Strip(loc[c].body)))
                    ELSE Http \o MovieArg(Truncate(Strip(loc[c].body)))
          ELSE /\ effects[c][1].msg.type = "text"
               /\ effects[c][1].msg.message = MovieUsage
               /\ effects[c][1].msg.special_data = NoData

\* C17 witness: the log holds a movie event whose url is its argument as sent,
\* one whose url got the scheme prepended, and the usage text.
C17_Witness ==
  /\ \E i \in 1..Len(chat_history) :
       /\ chat_history[i].type = "movie"
       /\ chat_history[i].special_data.value = Https \o <<"x">>
  /\ \E i \in 1..Len(chat_history) :
       /\ chat_history[i].type = "movie"
       /\ chat_history[i].special_data.value = Http \o <<"h", "t", "t", "p", "x">>
  /\ \E i \in 1..Len(chat_history) :
       /\ chat_history[i].type = "text"
       /\ chat_history[i].message = MovieUsage

\* C18. No stale sessions after disconnect, as claimed: every session of the
\* registry is bound to a connection that is open, or to a closed one whose
\* disconnect handler has not finished yet.
C18_NoStaleSessions ==
  \A i \in 1..Len(online_users) :
    status[online_users[i].sid] = "closed" => pc[online_users[i].sid] # "idle"

\* C19. Leave ownership, as claimed: when a leave deletes a session, the
\* session is bound to the connection that sent the leave.
C19_LeaveOwnership ==
  [][\A c \in Conns :
       (leave_375(c) /\ online_users' # online_users) =>
         SidOf(online_users, loc[c].username) = c]_vars

\* C20. Question precedes reply, as claimed: a finished send_message that
\* carried an assistant question has appended and broadcast the ai_chat
\* question before the ai_reply it triggered, and wherever the log holds both
\* events the question stands before the reply.
C20_QuestionPrecedesReply ==
  \A c \in Conns :
    (/\ Finished(c, "send_message")
     /\ loc[c].prior # NoConn
     /\ IsQuestion(loc[c].body)
     /\ ~loc[c].ai_failed) =>
       /\ loc[c].msg.id < loc[c].ai.id
       /\ \A k, l \in 1..Len(effects[c]) :
            (/\ effects[c][k].ev = "new_message" /\ effects[c][k].msg = loc[c].msg
             /\ effects[c][l].ev = "new_message" /\ effects[c][l].msg = loc[c].ai) => k < l
       /\ \A i, j \in 1..Len(chat_history) :
            (chat_history[i] = loc[c].msg /\ chat_history[j] = loc[c].ai) => i < j

====
